---- MODULE Spec2Model ----
(***************************************************************************)
(* Transcript PDF Scrubber (src/streamlit_app.py).                         *)
(*                                                                         *)
(* Strings are sequences of one-character strings.  The module holds five  *)
(* specifications over disjoint groups of variables:                       *)
(*   SpecRedact    redact_text / build_phrase_regex on bounded inputs      *)
(*   SpecTwice     redact_text as the script calls it, then once more on   *)
(*                 its own output                                          *)
(*   SpecNormalize normalize_list on bounded raw strings                   *)
(*   SpecPipeline  the request script (lines 137-203)                      *)
(*   SpecPdf       redact_pdf_bytes, one step per library call             *)
(***************************************************************************)
EXTENDS Integers, Sequences, FiniteSets, TLC

VARIABLES
    text,         \* redact_text: the text argument
    phrases,      \* redact_text: the phrases argument
    replacement,  \* redact_text: the replacement argument
    rpc,          \* "idle" | "ready" | "once" | "twice"
    res,          \* result of redact_text(text, phrases, replacement)
    res2,         \* result of redact_text(res.out, phrases, replacement)
    raw,          \* normalize_list: the raw argument
    npc,          \* "idle" | "ready" | "done"
    cleaned,      \* normalize_list: the list returned
    pc,           \* request script: the statement to run next
    pages,        \* per-page texts returned by extract_pdf_text
    full_text,    \* text returned by extract_pdf_text
    mode,         \* "manual" | "auto"
    targets,      \* the phrases to scrub
    redacted_text,
    redacted_pdf,
    offered,      \* download buttons rendered: subset of {"pdf", "txt"}
    executed,     \* helper calls made so far (history)
    failed,       \* the call that raised, "" if none
    doc,          \* redact_pdf_bytes: the text of each page of the document
    pdf_phrases,  \* redact_pdf_bytes: the phrases argument
    has_ignorecase, \* hasattr(fitz, "TEXT_IGNORECASE")
    ppc,          \* "idle" | "open" | "loop" | "saved" | "returned" | "raised"
    sorted_phrases, \* the local phrases after lines 70-71
    page_i,       \* index of the page of the outer loop
    phrase_i,     \* index of the phrase of the inner loop
    annots,       \* per page: the redaction annotations queued, in order
    total_hits,
    searches,     \* per page: the phrases searched so far (history)
    applies,      \* per page: the annotations each apply_redactions call committed (history)
    searched_at_apply \* per page: the phrases searched before each apply_redactions call (history)

redactVars == <<text, phrases, replacement, rpc, res, res2>>

normVars == <<raw, npc, cleaned>>

pipeVars == <<pc, pages, full_text, mode, targets, redacted_text, redacted_pdf,
              offered, executed, failed>>

pdfVars == <<doc, pdf_phrases, has_ignorecase, ppc, sorted_phrases, page_i, phrase_i,
             annots, total_hits, searches, applies, searched_at_apply>>

vars == <<redactVars, normVars, pipeVars, pdfVars>>

(***************************************************************************)
(* Characters                                                              *)
(***************************************************************************)
BSL == "\\"

\* \w of a str pattern: letters, digits and the underscore.
IsWord(c) == c \in {"a", "A", "b", "B", "1", "I", "_"}

\* str.lower / the case folding of (?i) on the characters used here.
Lower(c) == CASE c = "A" -> "a" [] c = "B" -> "b" [] c = "I" -> "i" [] OTHER -> c

Upper(c) == CASE c = "a" -> "A" [] c = "b" -> "B" [] c = "i" -> "I" [] OTHER -> c

LowerStr(s) == [k \in 1..Len(s) |-> Lower(s[k])]

UpperStr(s) == [k \in 1..Len(s) |-> Upper(s[k])]

\* All strings over alphabet A of length lo..hi.
Strings(A, lo, hi) == UNION {[1..n -> A] : n \in lo..hi}

(***************************************************************************)
(* build_phrase_regex: (?i)(?<!\w)(p1|p2|...)(?!\w) with every pi escaped, *)
(* or (?!x)x for an empty list.  The compiled pattern is the record of its *)
(* alternatives (literals, since re.escape neutralises every special       *)
(* character) and its number of capturing groups.                          *)
(***************************************************************************)
build_phrase_regex(ps) ==
    IF ps = <<>> THEN [alts |-> <<>>, groups |-> 0]
    ELSE [alts |-> ps, groups |-> 1]

\* The escaped literal p matches text at i, case-insensitively.
LitMatchAt(t, i, p) ==
    /\ i + Len(p) - 1 <= Len(t)
    /\ \A k \in 1..Len(p) : Lower(t[i + k - 1]) = Lower(p[k])

\* (?<!\w) at position i.
LookBehindOK(t, i) == i = 1 \/ ~IsWord(t[i - 1])

\* The pattern without its trailing (?!\w).
LookAheadAny(t, j) == TRUE

\* (?!\w) at position j, the first position after the group.
LookAheadOK(t, j) == j > Len(t) \/ ~IsWord(t[j])

\* Alternative k of the group matches at i and the rest of the pattern
\* (the lookahead) matches after it.
AltOK(pat, t, i, k) ==
    /\ LitMatchAt(t, i, pat.alts[k])
    /\ LookAheadOK(t, i + Len(pat.alts[k]))

\* The alternation preferring the alternative listed last.
LastAlt(pat, t, i) ==
    LET ok == {k \in 1..Len(pat.alts) : AltOK(pat, t, i, k)}
    IN  IF ok = {} THEN 0 ELSE CHOOSE k \in ok : \A m \in ok : m <= k

\* The alternation is tried left to right with backtracking: the
\* alternative taken is the first one after which the lookahead holds.
FirstAlt(pat, t, i) ==
    LET ok == {k \in 1..Len(pat.alts) : AltOK(pat, t, i, k)}
    IN  IF ok = {} THEN 0 ELSE CHOOSE k \in ok : \A m \in ok : k <= m

\* End (exclusive) of the match of the pattern starting at i, 0 if none.
MatchEnd(pat, t, i) ==
    IF ~LookBehindOK(t, i) THEN 0
    ELSE LET k == FirstAlt(pat, t, i)
         IN  IF k = 0 THEN 0 ELSE i + Len(pat.alts[k])

\* The leftmost non-overlapping matches found by one scan from position i:
\* a sequence of <<start, end>> (end exclusive).
RECURSIVE Scan(_, _, _)
Scan(pat, t, i) ==
    IF i > Len(t) THEN <<>>
    ELSE LET e == MatchEnd(pat, t, i)
         IN  IF e = 0 THEN Scan(pat, t, i + 1)
             ELSE <<<<i, e>>>> \o Scan(pat, t, e)

(***************************************************************************)
(* The replacement template of Pattern.sub: a str replacement is parsed    *)
(* for backslash escapes before the scan (re._compile_template), whatever  *)
(* the text holds.                                                         *)
(***************************************************************************)
IsDigit(c) == c \in {"1"}

IsAsciiLetter(c) == c \in {"a", "A", "b", "B", "i", "I"}

\* The template escapes that stand for one character (\a is BEL, \b is BS).
EscapeChar(c) == CASE c = BSL -> BSL [] c = "a" -> "BEL" [] c = "b" -> "BS"

IsEscape(c) == c \in {BSL, "a", "b"}

Lit(s) == [grp |-> 0, lit |-> s]

Grp(n) == [grp |-> n, lit |-> <<>>]

TemplateError == [err |-> TRUE, items |-> <<>>]

\* Parse r from position i on; groups is the pattern's group count.
RECURSIVE ParseFrom(_, _, _)
ParseFrom(r, i, groups) ==
    IF i > Len(r) THEN [err |-> FALSE, items |-> <<>>]
    ELSE
      LET Then(item, n) ==
            LET rest == ParseFrom(r, i + n, groups)
            IN  IF rest.err THEN TemplateError
                ELSE [err |-> FALSE, items |-> <<item>> \o rest.items]
      IN
      IF r[i] # BSL THEN Then(Lit(<<r[i]>>), 1)
      ELSE IF i = Len(r) THEN TemplateError            \* bad escape (end of pattern)
      ELSE LET c == r[i + 1] IN
        IF IsDigit(c) THEN
          IF i + 2 <= Len(r) /\ IsDigit(r[i + 2]) THEN
            IF i + 3 <= Len(r) /\ IsDigit(r[i + 3])
              THEN Then(Lit(<<"I">>), 4)               \* octal \111 = chr(73)
              ELSE TemplateError                       \* invalid group reference 11
          ELSE IF 1 > groups THEN TemplateError        \* invalid group reference 1
          ELSE Then(Grp(1), 2)
        ELSE IF IsEscape(c) THEN Then(Lit(<<EscapeChar(c)>>), 2)
        ELSE IF IsAsciiLetter(c) THEN TemplateError    \* bad escape \A
        ELSE Then(Lit(<<BSL, c>>), 2)

parse_template(r, groups) == ParseFrom(r, 1, groups)

\* The text a match is replaced by: literals as they are, \1 the matched text.
RECURSIVE Expand(_, _)
Expand(items, matched) ==
    IF items = <<>> THEN <<>>
    ELSE (IF Head(items).grp = 0 THEN Head(items).lit ELSE matched)
         \o Expand(Tail(items), matched)

\* The pieces that replace the spans, in order.
Pieces(t, spans, items) ==
    [k \in 1..Len(spans) |-> Expand(items, SubSeq(t, spans[k][1], spans[k][2] - 1))]

\* The text between the matches kept, each match replaced by its piece.
RECURSIVE Build(_, _, _, _)
Build(t, spans, pieces, pos) ==
    IF spans = <<>> THEN SubSeq(t, pos, Len(t))
    ELSE SubSeq(t, pos, Head(spans)[1] - 1) \o Head(pieces)
         \o Build(t, Tail(spans), Tail(pieces), Head(spans)[2])

Raised == [raised |-> TRUE, out |-> <<>>, spans |-> <<>>, pieces |-> <<>>]

\* redact_text: pat.sub(replacement, text).
redact_text(t, ps, r) ==
    LET pat == build_phrase_regex(ps)
        tpl == parse_template(r, pat.groups)
    IN  IF tpl.err THEN Raised
        ELSE LET spans  == Scan(pat, t, 1)
                 pieces == Pieces(t, spans, tpl.items)
             IN  [raised |-> FALSE, out |-> Build(t, spans, pieces, 1),
                  spans |-> spans, pieces |-> pieces]

(***************************************************************************)
(* normalize_list: re.split(r"[,\n]+", raw), strip every part, drop the    *)
(* empty ones, sort by length, longest first (list.sort is stable, also    *)
(* with reverse=True).                                                     *)
(***************************************************************************)
NL == "\n"

IsSeparator(c) == c \in {",", NL}

IsSpace(c) == c \in {" ", NL}

\* re.split: the parts between the runs of separators (empty parts at the
\* ends included).
RECURSIVE SplitFrom(_, _, _)
SplitFrom(s, i, cur) ==
    IF i > Len(s) THEN <<cur>>
    ELSE IF ~IsSeparator(s[i]) THEN SplitFrom(s, i + 1, Append(cur, s[i]))
    ELSE IF i > 1 /\ IsSeparator(s[i - 1]) THEN SplitFrom(s, i + 1, cur)
    ELSE <<cur>> \o SplitFrom(s, i + 1, <<>>)

re_split(s) == SplitFrom(s, 1, <<>>)

RECURSIVE LStrip(_)
LStrip(s) == IF s # <<>> /\ IsSpace(Head(s)) THEN LStrip(Tail(s)) ELSE s

RECURSIVE RStrip(_)
RStrip(s) ==
    IF s # <<>> /\ IsSpace(s[Len(s)]) THEN RStrip(SubSeq(s, 1, Len(s) - 1)) ELSE s

\* str.strip
Strip(s) == RStrip(LStrip(s))

\* [p.strip() for p in parts if p.strip()]
StripNonEmpty(parts) ==
    LET stripped == [k \in 1..Len(parts) |-> Strip(parts[k])]
    IN  SelectSeq(stripped, LAMBDA q : q # <<>>)

\* Insert p behind every entry at least as long: equal lengths keep their order.
RECURSIVE InsertByLen(_, _)
InsertByLen(sorted, p) ==
    IF sorted = <<>> THEN <<p>>
    ELSE IF Len(Head(sorted)) >= Len(p)
         THEN <<Head(sorted)>> \o InsertByLen(Tail(sorted), p)
         ELSE <<p>> \o sorted

RECURSIVE SortFrom(_, _)
SortFrom(ps, acc) ==
    IF ps = <<>> THEN acc ELSE SortFrom(Tail(ps), InsertByLen(acc, Head(ps)))

\* list.sort(key=len, reverse=True)
SortByLenDesc(ps) == SortFrom(ps, <<>>)

normalize_list(r) == SortByLenDesc(StripNonEmpty(re_split(r)))

(***************************************************************************)
(* SpecRedact: redact_text on every bounded input, then once more on its   *)
(* own output with the same phrases and replacement.                       *)
(***************************************************************************)
MaxTextLen == 4

MaxTermChars == 3

TextChars == {"a", "b", "-"}

TermChars == {"a", "A", "b", "-"}

Tokens == {<<"#">>}

\* s cut after each position of cuts: a list of non-empty strings.
RECURSIVE CutAt(_, _, _)
CutAt(s, cuts, from) ==
    IF from > Len(s) THEN <<>>
    ELSE LET ends == {c \in cuts : c >= from} \cup {Len(s)}
             e    == CHOOSE c \in ends : \A d \in ends : c <= d
         IN  <<SubSeq(s, from, e)>> \o CutAt(s, cuts, e + 1)

\* Every list of non-empty terms whose lengths sum to at most n.
TermLists(n) ==
    {CutAt(s, cuts, 1) :
        <<s, cuts>> \in UNION {{<<s, c>> : c \in SUBSET (1..(Len(s) - 1))} :
                                s \in Strings(TermChars, 0, n)}}

NoResult == [raised |-> FALSE, out |-> <<>>, spans |-> <<>>, pieces |-> <<>>]

IdleRedact ==
    /\ text = <<>>
    /\ phrases = <<>>
    /\ replacement = <<>>
    /\ rpc = "idle"
    /\ res = NoResult
    /\ res2 = NoResult

IdleNormalize ==
    /\ raw = <<>>
    /\ npc = "idle"
    /\ cleaned = <<>>

IdlePipeline ==
    /\ pc = "idle"
    /\ pages = <<>>
    /\ full_text = <<>>
    /\ mode = "manual"
    /\ targets = <<>>
    /\ redacted_text = <<>>
    /\ redacted_pdf = "none"
    /\ offered = {}
    /\ executed = {}
    /\ failed = ""

IdlePdf ==
    /\ doc = <<>>
    /\ pdf_phrases = <<>>
    /\ has_ignorecase = FALSE
    /\ ppc = "idle"
    /\ sorted_phrases = <<>>
    /\ page_i = 0
    /\ phrase_i = 0
    /\ annots = <<>>
    /\ total_hits = 0
    /\ searches = <<>>
    /\ applies = <<>>
    /\ searched_at_apply = <<>>

InitRedact ==
    /\ IdleNormalize
    /\ IdlePipeline
    /\ IdlePdf
    /\ text \in Strings(TextChars, 0, MaxTextLen)
    /\ phrases \in TermLists(MaxTermChars)
    /\ replacement \in Tokens
    /\ rpc = "ready"
    /\ res = NoResult
    /\ res2 = NoResult

Redact ==
    /\ rpc = "ready"
    /\ res' = redact_text(text, phrases, replacement)
    /\ rpc' = "once"
    /\ UNCHANGED <<text, phrases, replacement, res2, normVars, pipeVars, pdfVars>>

RedactAgain ==
    /\ rpc = "once"
    /\ ~res.raised
    /\ res2' = redact_text(res.out, phrases, replacement)
    /\ rpc' = "twice"
    /\ UNCHANGED <<text, phrases, replacement, res, normVars, pipeVars, pdfVars>>

NextRedact == Redact

SpecRedact == InitRedact /\ [][NextRedact]_vars

(***************************************************************************)
(* SpecTwice: the calls the request script can make.  targets is always    *)
(* longest-first (normalize_list, or sorted(detected, key=len,             *)
(* reverse=True)) and the replacement is never empty (replacement.strip()  *)
(* or "[REDACTED]").  Either longer phrase lists with the plain token, or  *)
(* short inputs with every token over TokenChars.  The second call runs    *)
(* redact_text on the first call's output.                                 *)
(***************************************************************************)
TwiceTextLen == 3

TwiceTermChars == 4

TplTextLen == 2

TplTermChars == 1

MaxTokenLen == 4

TokenChars == {"#", BSL, "1", "A"}

IsLengthSorted(ps) == \A k \in 1..(Len(ps) - 1) : Len(ps[k]) >= Len(ps[k + 1])

InitLongLists ==
    /\ text \in Strings(TextChars, 0, TwiceTextLen)
    /\ phrases \in {ps \in TermLists(TwiceTermChars) : IsLengthSorted(ps)}
    /\ replacement \in Tokens

InitAllTokens ==
    /\ text \in Strings(TextChars, 0, TplTextLen)
    /\ phrases \in {ps \in TermLists(TplTermChars) : IsLengthSorted(ps)}
    /\ replacement \in Strings(TokenChars, 1, MaxTokenLen)

InitTwice ==
    /\ IdleNormalize
    /\ IdlePipeline
    /\ IdlePdf
    /\ InitLongLists \/ InitAllTokens
    /\ rpc = "ready"
    /\ res = NoResult
    /\ res2 = NoResult

NextTwice == Redact \/ RedactAgain

SpecTwice == InitTwice /\ [][NextTwice]_vars

(***************************************************************************)
(* Vocabulary of the claims about redact_text, stated on positions of the  *)
(* text and independent of the matcher above.                              *)
(***************************************************************************)
\* p occurs in t at i..j-1, compared case-insensitively.
OccursAt(t, i, j, p) ==
    /\ j = i + Len(p)
    /\ j - 1 <= Len(t)
    /\ \A k \in 1..Len(p) : Lower(t[i + k - 1]) = Lower(p[k])

\* The characters before i and at j are absent or not word characters.
WordBounded(t, i, j) ==
    /\ (i = 1 \/ t[i - 1] \notin {"a", "A", "b", "B", "1", "I", "_"})
    /\ (j > Len(t) \/ t[j] \notin {"a", "A", "b", "B", "1", "I", "_"})

\* The terms with a word-bounded occurrence starting at i.
Candidates(t, ps, i) ==
    {k \in 1..Len(ps) : /\ OccursAt(t, i, i + Len(ps[k]), ps[k])
                        /\ WordBounded(t, i, i + Len(ps[k]))}

IsLongestFirst(ps) == \A k \in 1..(Len(ps) - 1) : Len(ps[k]) >= Len(ps[k + 1])

\* Spans lie in the text, are non-empty, in order and disjoint.
WellFormedSpans(t, spans) ==
    /\ \A k \in 1..Len(spans) :
          1 <= spans[k][1] /\ spans[k][1] < spans[k][2] /\ spans[k][2] <= Len(t) + 1
    /\ \A k \in 1..(Len(spans) - 1) : spans[k][2] <= spans[k + 1][1]

Covered(spans, i) == \E k \in 1..Len(spans) : spans[k][1] <= i /\ i < spans[k][2]

RECURSIVE SumTo(_, _)
SumTo(f, n) == IF n = 0 THEN 0 ELSE f[n] + SumTo(f, n - 1)

\* How far position i of the text has moved in the output: the growth of
\* every span that ends at or before i.
Shift(r, i) ==
    SumTo([k \in 1..Len(r.spans) |->
             IF r.spans[k][2] <= i
             THEN Len(r.pieces[k]) - (r.spans[k][2] - r.spans[k][1]) ELSE 0],
          Len(r.spans))

\* C2: every span redact_text replaces is a case-insensitive occurrence of
\* one of the terms that is neither immediately preceded nor immediately
\* followed by a word character, and every character of the text outside
\* the replaced spans is in the output, unchanged and in the same order.
C2_OnlyBoundedOccurrencesReplaced ==
    (rpc = "once" /\ ~res.raised) =>
        /\ WellFormedSpans(text, res.spans)
        /\ \A k \in 1..Len(res.spans) :
              /\ \E m \in 1..Len(phrases) :
                    OccursAt(text, res.spans[k][1], res.spans[k][2], phrases[m])
              /\ WordBounded(text, res.spans[k][1], res.spans[k][2])
        /\ Len(res.out) = Len(text) + Shift(res, Len(text) + 1)
        /\ \A i \in 1..Len(text) :
              ~Covered(res.spans, i) => res.out[i + Shift(res, i)] = text[i]

AllWord(s) == \A k \in 1..Len(s) : s[k] \in {"a", "A", "b", "B", "1", "I", "_"}

\* An occurrence of a term made of word characters inside a larger word,
\* outside every span.
EmbeddedOccurrence(t, ps, spans) ==
    \E m \in 1..Len(ps) : \E i \in 1..Len(t) :
        /\ AllWord(ps[m])
        /\ OccursAt(t, i, i + Len(ps[m]), ps[m])
        /\ ~WordBounded(t, i, i + Len(ps[m]))
        /\ \A x \in i..(i + Len(ps[m]) - 1) : ~Covered(spans, x)

\* Witness of C2: a span was replaced while an occurrence inside a larger
\* word was left alone.
C2_Witness ==
    /\ rpc = "once"
    /\ ~res.raised
    /\ \E k \in 1..Len(res.spans) :
          AllWord(SubSeq(text, res.spans[k][1], res.spans[k][2] - 1))
    /\ EmbeddedOccurrence(text, phrases, res.spans)

Min(S) == CHOOSE x \in S : \A y \in S : x <= y

Max(S) == CHOOSE x \in S : \A y \in S : x >= y

\* C3: where several terms have a word-bounded occurrence starting at the
\* start of a replaced span, the span is that of the earliest-listed one;
\* with the list longest-first it is the longest such term.
C3_EarliestListedWins ==
    (rpc = "once" /\ ~res.raised) =>
        \A k \in 1..Len(res.spans) :
            LET i == res.spans[k][1]
                c == Candidates(text, phrases, i)
            IN  /\ c # {}
                /\ res.spans[k][2] = i + Len(phrases[Min(c)])
                /\ IsLongestFirst(phrases) =>
                      res.spans[k][2] = i + Max({Len(phrases[m]) : m \in c})

\* Witness of C3: a longest-first list, and a span at whose start a phrase
\* and a shorter term it begins with both have a word-bounded occurrence.
C3_Witness ==
    /\ rpc = "once"
    /\ ~res.raised
    /\ IsLongestFirst(phrases)
    /\ \E k \in 1..Len(res.spans) :
          \E m, n \in Candidates(text, phrases, res.spans[k][1]) :
              /\ Len(phrases[m]) > Len(phrases[n])
              /\ AllWord(phrases[n])
              /\ res.spans[k][2] = res.spans[k][1] + Len(phrases[m])

\* C1: every word-bounded occurrence of a term of a non-empty list is
\* replaced: each of its characters lies in a replaced span, also where
\* occurrences of two different terms overlap.
C1_EveryBoundedOccurrenceReplaced ==
    (rpc = "once" /\ ~res.raised /\ phrases # <<>>) =>
        \A m \in 1..Len(phrases) : \A i \in 1..Len(text) :
            LET j == i + Len(phrases[m])
            IN  (OccursAt(text, i, j, phrases[m]) /\ WordBounded(text, i, j)) =>
                    \A x \in i..(j - 1) : Covered(res.spans, x)

\* No term occurs in the token, compared case-insensitively.
TokenHoldsNoTerm(ps, r) ==
    \A m \in 1..Len(ps) : \A i \in 1..Len(r) : ~OccursAt(r, i, i + Len(ps[m]), ps[m])

\* C4: with a token that contains no term and is matched by no term, a
\* second pass with the same terms changes nothing.
C4_Idempotent ==
    (rpc = "twice" /\ TokenHoldsNoTerm(phrases, replacement)) =>
        /\ ~res2.raised
        /\ res2.out = res.out

\* C6: whatever the token holds, the call returns and each matched span is
\* replaced by exactly the token, at the span's place in the output.
C6_TokenVerbatim ==
    (rpc = "once") =>
        /\ ~res.raised
        /\ \A k \in 1..Len(res.spans) :
              LET at == res.spans[k][1] + Shift(res, res.spans[k][1])
              IN  SubSeq(res.out, at, at + Len(replacement) - 1) = replacement

(***************************************************************************)
(* SpecNormalize: normalize_list on every raw string over RawChars of at   *)
(* most MaxRawLen characters.                                              *)
(***************************************************************************)
MaxRawLen == 4

RawChars == {"a", "A", "b", ",", " ", NL}

InitNormalize ==
    /\ IdleRedact
    /\ IdlePipeline
    /\ IdlePdf
    /\ raw \in Strings(RawChars, 0, MaxRawLen)
    /\ npc = "ready"
    /\ cleaned = <<>>

Normalize ==
    /\ npc = "ready"
    /\ cleaned' = normalize_list(raw)
    /\ npc' = "done"
    /\ UNCHANGED <<raw, redactVars, pipeVars, pdfVars>>

NextNormalize == Normalize

SpecNormalize == InitNormalize /\ [][NextNormalize]_vars

\* C5: the list returned holds no two entries that are equal when compared
\* case-insensitively, and is in descending length order.
C5_NoDuplicatesLongestFirst ==
    (npc = "done") =>
        /\ \A m, n \in 1..Len(cleaned) :
              m # n => [k \in 1..Len(cleaned[m]) |-> Lower(cleaned[m][k])]
                       # [k \in 1..Len(cleaned[n]) |-> Lower(cleaned[n][k])]
        /\ \A k \in 1..(Len(cleaned) - 1) : Len(cleaned[k]) >= Len(cleaned[k + 1])

(***************************************************************************)
(* SpecPipeline: the request script, lines 137-203, one action per         *)
(* statement.  Streamlit runs the script top to bottom; st.stop() and an   *)
(* uncaught exception both end the run, and nothing below them executes.   *)
(* What the libraries return (the page texts, whether a parser accepts the *)
(* bytes, whether the model loads, the entities found) is chosen by the    *)
(* environment in the action that makes the call.                          *)
(***************************************************************************)
MaxPages == 2

\* page.extract_text() of one page: None, or a text.
PageExtracts == {"None", <<>>, <<" ">>, <<"a">>, <<"a", " ", "b">>}

\* The sidebar's raw term lists and replacement inputs.
RawInputs == {<<>>, <<"a">>, <<"b", ",", "a", " ", "b">>}

TokenInputs == {<<>>, <<" ">>, <<"#">>, <<BSL>>, <<BSL, "1">>}

\* What detect_entities can return on a text.
EntitySets == {{}, {<<"a">>}, {<<"a">>, <<"b">>, <<"a", " ", "b">>}}

DefaultToken == <<"[", "R", "E", "D", "A", "C", "T", "E", "D", "]">>

\* All sequences over the set S that hold each element once.
RECURSIVE Perms(_)
Perms(S) ==
    IF S = {} THEN {<<>>}
    ELSE UNION {{<<x>> \o q : q \in Perms(S \ {x})} : x \in S}

\* "\n\n".join(pages)
RECURSIVE JoinPages(_)
JoinPages(ps) ==
    IF ps = <<>> THEN <<>>
    ELSE IF Len(ps) = 1 THEN Head(ps)
    ELSE Head(ps) \o <<NL, NL>> \o JoinPages(Tail(ps))

\* pages.append(page.extract_text() or "")
PageTexts(extracts) ==
    [k \in 1..Len(extracts) |-> IF extracts[k] = "None" THEN <<>> ELSE extracts[k]]

\* The joined pages without the .strip().
FullTextUnstripped(ps) == JoinPages(ps)

\* full_text = "\n\n".join(pages).strip()
FullText(ps) == Strip(JoinPages(ps))

\* replacement.strip() or "[REDACTED]"
EffectiveToken(r) == IF Strip(r) = <<>> THEN DefaultToken ELSE Strip(r)

InitPipeline ==
    /\ IdleRedact
    /\ IdleNormalize
    /\ IdlePdf
    /\ pc = "upload_guard"
    /\ pages = <<>>
    /\ full_text = <<>>
    /\ mode = "manual"
    /\ targets = <<>>
    /\ redacted_text = <<>>
    /\ redacted_pdf = "none"
    /\ offered = {}
    /\ executed = {}
    /\ failed = ""

\* lines 137-139: if not uploaded: st.info(...); st.stop()
UploadGuard ==
    /\ pc = "upload_guard"
    /\ \E uploaded \in BOOLEAN :
          pc' = IF uploaded THEN "extract" ELSE "stopped"
    /\ UNCHANGED <<pages, full_text, mode, targets, redacted_text, redacted_pdf,
                   offered, executed, failed,
                   redactVars, normVars, pdfVars>>

\* lines 141-144: pdfplumber refuses the bytes and the exception ends the run
ExtractFails ==
    /\ pc = "extract"
    /\ pc' = "aborted"
    /\ failed' = "extract"
    /\ executed' = executed \cup {"extract"}
    /\ UNCHANGED <<pages, full_text, mode, targets, redacted_text, redacted_pdf, offered,
                   redactVars, normVars, pdfVars>>

\* lines 141-144: full_text, pages = extract_pdf_text(file_bytes)
Extract ==
    /\ pc = "extract"
    /\ \E extracts \in Strings(PageExtracts, 0, MaxPages) :
          /\ pages' = PageTexts(extracts)
          /\ full_text' = FullText(PageTexts(extracts))
    /\ executed' = executed \cup {"extract"}
    /\ pc' = "text_guard"
    /\ UNCHANGED <<mode, targets, redacted_text, redacted_pdf, offered, failed,
                   redactVars, normVars, pdfVars>>

\* lines 146-150: if not full_text: st.warning(...); st.stop()
TextGuard ==
    /\ pc = "text_guard"
    /\ pc' = IF full_text = <<>> THEN "stopped" ELSE "terms"
    /\ UNCHANGED <<pages, full_text, mode, targets, redacted_text, redacted_pdf,
                   offered, executed, failed,
                   redactVars, normVars, pdfVars>>

\* lines 152-155: user_terms = normalize_list(...); targets = list(user_terms)
Terms ==
    /\ pc = "terms"
    /\ \E r \in RawInputs : targets' = normalize_list(r)
    /\ \E m \in {"manual", "auto"} :
          /\ mode' = m
          /\ pc' = IF m = "auto" THEN "ner" ELSE "scrub"
    /\ executed' = executed \cup {"normalize"}
    /\ UNCHANGED <<pages, full_text, redacted_text, redacted_pdf, offered, failed,
                   redactVars, normVars, pdfVars>>

\* line 156: spacy.load raises and the exception ends the run
ModelUnavailable ==
    /\ pc = "ner"
    /\ pc' = "aborted"
    /\ failed' = "model"
    /\ executed' = executed \cup {"load_model"}
    /\ UNCHANGED <<pages, full_text, mode, targets, redacted_text, redacted_pdf, offered,
                   redactVars, normVars, pdfVars>>

\* lines 156-160: detected = detect_entities(...); targets = sorted(detected, ...)
Detect ==
    /\ pc = "ner"
    /\ \E detected \in EntitySets :
          targets' \in {ps \in Perms(detected) : IsLengthSorted(ps)}
    /\ executed' = executed \cup {"load_model", "detect"}
    /\ pc' = "scrub"
    /\ UNCHANGED <<pages, full_text, mode, redacted_text, redacted_pdf, offered, failed,
                   redactVars, normVars, pdfVars>>

\* lines 162-163: redacted_text = redact_text(full_text, targets, ...)
Scrub ==
    /\ pc = "scrub"
    /\ \E r \in TokenInputs :
          LET result == redact_text(full_text, targets, EffectiveToken(r))
          IN  /\ redacted_text' = result.out
              /\ pc' = IF result.raised THEN "aborted" ELSE "pdf"
              /\ failed' = IF result.raised THEN "text" ELSE failed
    /\ executed' = executed \cup {"redact_text"}
    /\ UNCHANGED <<pages, full_text, mode, targets, redacted_pdf, offered,
                   redactVars, normVars, pdfVars>>

\* lines 165-170: redact_pdf_bytes raises (fitz.open on bytes that are no
\* valid document, or any call after it) and the exception ends the run
PdfFails ==
    /\ pc = "pdf"
    /\ pc' = "aborted"
    /\ failed' = "pdf"
    /\ executed' = executed \cup {"redact_pdf"}
    /\ UNCHANGED <<pages, full_text, mode, targets, redacted_text, redacted_pdf, offered,
                   redactVars, normVars, pdfVars>>

\* lines 165-170: redacted_pdf = redact_pdf_bytes(...)
Pdf ==
    /\ pc = "pdf"
    /\ redacted_pdf' = "bytes"
    /\ executed' = executed \cup {"redact_pdf"}
    /\ pc' = "offer_pdf"
    /\ UNCHANGED <<pages, full_text, mode, targets, redacted_text, offered, failed,
                   redactVars, normVars, pdfVars>>

\* lines 172-177: st.download_button("Download redacted PDF ...")
OfferPdf ==
    /\ pc = "offer_pdf"
    /\ offered' = offered \cup {"pdf"}
    /\ pc' = "display"
    /\ UNCHANGED <<pages, full_text, mode, targets, redacted_text, redacted_pdf,
                   executed, failed,
                   redactVars, normVars, pdfVars>>

\* lines 180-196: the previews and the expander
Display ==
    /\ pc = "display"
    /\ pc' = "offer_txt"
    /\ UNCHANGED <<pages, full_text, mode, targets, redacted_text, redacted_pdf,
                   offered, executed, failed,
                   redactVars, normVars, pdfVars>>

\* lines 198-203: st.download_button("Download redacted text (.txt)")
OfferTxt ==
    /\ pc = "offer_txt"
    /\ offered' = offered \cup {"txt"}
    /\ pc' = "done"
    /\ UNCHANGED <<pages, full_text, mode, targets, redacted_text, redacted_pdf,
                   executed, failed,
                   redactVars, normVars, pdfVars>>

NextPipeline ==
    \/ UploadGuard
    \/ ExtractFails
    \/ Extract
    \/ TextGuard
    \/ Terms
    \/ ModelUnavailable
    \/ Detect
    \/ Scrub
    \/ PdfFails
    \/ Pdf
    \/ OfferPdf
    \/ Display
    \/ OfferTxt

SpecPipeline == InitPipeline /\ [][NextPipeline]_vars

RunEnded == pc \in {"done", "stopped", "aborted"}

\* C7: the two artifacts fail in isolation: a run in which producing the
\* redacted document failed still offers the redacted text, and a run in
\* which producing the redacted text failed still offers the redacted
\* document.
C7_ArtifactsFailInIsolation ==
    RunEnded =>
        /\ failed = "pdf" => "txt" \in offered
        /\ failed = "text" => "pdf" \in offered

AllPagesEmpty == \A k \in 1..Len(pages) : pages[k] = <<>>

\* C8: on a document whose every page extracts to empty text the run stops
\* right after extraction: no normalization, model load, detection, text
\* or document redaction is executed and no artifact is offered.
C8_StopsOnEmptyText ==
    ("extract" \in executed /\ failed = "" /\ AllPagesEmpty) =>
        /\ pc \in {"text_guard", "stopped"}
        /\ executed = {"extract"}
        /\ offered = {}

\* Witness of C8: a run on a document of two or more pages, all empty, was
\* stopped by the guard after extraction.
C8_Witness ==
    /\ pc = "stopped"
    /\ "extract" \in executed
    /\ Len(pages) >= 2
    /\ AllPagesEmpty

(***************************************************************************)
(* SpecPdf: redact_pdf_bytes, one action per library call that reads or    *)
(* changes the document.  A page is its text; a rectangle returned by      *)
(* page.search_for is the <<start, end>> of the occurrence it bounds.      *)
(* With TEXT_IGNORECASE the search ignores case; without it the search is  *)
(* case-sensitive, the case the fallback of lines 89-93 is written for.    *)
(* TEXT_DEHYPHENATE only joins words hyphenated across lines, which these  *)
(* pages do not hold.                                                      *)
(***************************************************************************)
MaxPdfPages == 2

MaxPdfPhrases == 2

PdfPageTexts == {<<>>, <<"a">>, <<"A", " ", "a">>, <<"b", "a", "A">>}

PdfTerms == {<<"a">>, <<"A">>, <<"b", "a">>, <<"a", " ", "a">>}

\* The positions where needle occurs in page text t.
Occurrences(t, needle, ignorecase) ==
    {i \in 1..Len(t) :
        /\ i + Len(needle) - 1 <= Len(t)
        /\ \A k \in 1..Len(needle) :
              IF ignorecase THEN Lower(t[i + k - 1]) = Lower(needle[k])
              ELSE t[i + k - 1] = needle[k]}

RECURSIVE InOrder(_)
InOrder(S) ==
    IF S = {} THEN <<>>
    ELSE LET m == CHOOSE x \in S : \A y \in S : x <= y
         IN  <<m>> \o InOrder(S \ {m})

\* page.search_for(needle, flags=...): the rectangles, in reading order.
search_for(t, needle, ignorecase) ==
    LET at == InOrder(Occurrences(t, needle, ignorecase))
    IN  [k \in 1..Len(at) |-> <<at[k], at[k] + Len(needle)>>]

\* lines 83-93: the rectangles found for one phrase on one page.
Found(t, phrase, ic) ==
    LET rects == search_for(t, phrase, ic)
    IN  IF rects = <<>> /\ ~ic
        THEN search_for(t, LowerStr(phrase), FALSE) \o search_for(t, UpperStr(phrase), FALSE)
        ELSE rects

IsBlank(q) == Strip(q) = <<>>

\* lines 70-71: phrases = [p for p in phrases if p and p.strip()]; phrases.sort(...)
FilterAndSort(ps) == SortByLenDesc(SelectSeq(ps, LAMBDA q : ~IsBlank(q)))

\* apply_redactions indented into the inner loop: due after the first phrase.
InnerLoopDoneEarly(i, n) == i > 1 \/ i > n

\* The inner loop over the phrases is exhausted.
InnerLoopDone(i, n) == i > n

InitPdf ==
    /\ IdleRedact
    /\ IdleNormalize
    /\ IdlePipeline
    /\ doc \in Strings(PdfPageTexts, 0, MaxPdfPages)
    /\ pdf_phrases \in Strings(PdfTerms, 0, MaxPdfPhrases)
    /\ has_ignorecase \in BOOLEAN
    /\ ppc = "open"
    /\ sorted_phrases = <<>>
    /\ page_i = 0
    /\ phrase_i = 0
    /\ annots = [k \in 1..Len(doc) |-> <<>>]
    /\ total_hits = 0
    /\ searches = [k \in 1..Len(doc) |-> <<>>]
    /\ applies = [k \in 1..Len(doc) |-> <<>>]
    /\ searched_at_apply = [k \in 1..Len(doc) |-> <<>>]

\* line 67: fitz.open raises on bytes that are no valid document
OpenFails ==
    /\ ppc = "open"
    /\ ppc' = "raised"
    /\ UNCHANGED <<doc, pdf_phrases, has_ignorecase, sorted_phrases, page_i, phrase_i,
                   annots, total_hits, searches, applies, searched_at_apply,
                   redactVars, normVars, pipeVars>>

\* lines 67-78: open the document, filter and sort the phrases
Open ==
    /\ ppc = "open"
    /\ sorted_phrases' = FilterAndSort(pdf_phrases)
    /\ page_i' = 1
    /\ phrase_i' = 1
    /\ ppc' = "loop"
    /\ UNCHANGED <<doc, pdf_phrases, has_ignorecase, annots, total_hits, searches,
                   applies, searched_at_apply, redactVars, normVars, pipeVars>>

\* lines 81-98: one pass of the inner loop: search the phrase on the page
\* and queue a redaction annotation for every rectangle found
SearchPhrase ==
    /\ ppc = "loop"
    /\ page_i <= Len(doc)
    /\ ~InnerLoopDone(phrase_i, Len(sorted_phrases))
    /\ LET rects == Found(doc[page_i], sorted_phrases[phrase_i], has_ignorecase)
       IN  /\ annots' = [annots EXCEPT ![page_i] = @ \o rects]
           /\ total_hits' = total_hits + Len(rects)
    /\ searches' = [searches EXCEPT ![page_i] = Append(@, sorted_phrases[phrase_i])]
    /\ phrase_i' = phrase_i + 1
    /\ UNCHANGED <<doc, pdf_phrases, has_ignorecase, ppc, sorted_phrases, page_i,
                   applies, searched_at_apply, redactVars, normVars, pipeVars>>

\* lines 100-101: page.apply_redactions(), then the next page
ApplyPage ==
    /\ ppc = "loop"
    /\ page_i <= Len(doc)
    /\ InnerLoopDone(phrase_i, Len(sorted_phrases))
    /\ applies' = [applies EXCEPT ![page_i] = Append(@, annots[page_i])]
    /\ searched_at_apply' =
          [searched_at_apply EXCEPT ![page_i] = Append(@, searches[page_i])]
    /\ page_i' = page_i + 1
    /\ phrase_i' = 1
    /\ UNCHANGED <<doc, pdf_phrases, has_ignorecase, ppc, sorted_phrases, annots,
                   total_hits, searches, redactVars, normVars, pipeVars>>

\* line 103: out = doc.tobytes(garbage=4, deflate=True)
Serialize ==
    /\ ppc = "loop"
    /\ page_i > Len(doc)
    /\ ppc' = "saved"
    /\ UNCHANGED <<doc, pdf_phrases, has_ignorecase, sorted_phrases, page_i, phrase_i,
                   annots, total_hits, searches, applies, searched_at_apply,
                   redactVars, normVars, pipeVars>>

\* lines 104-105: doc.close(); return out
Close ==
    /\ ppc = "saved"
    /\ ppc' = "returned"
    /\ UNCHANGED <<doc, pdf_phrases, has_ignorecase, sorted_phrases, page_i, phrase_i,
                   annots, total_hits, searches, applies, searched_at_apply,
                   redactVars, normVars, pipeVars>>

NextPdf ==
    \/ OpenFails
    \/ Open
    \/ SearchPhrase
    \/ ApplyPage
    \/ Serialize
    \/ Close

SpecPdf == InitPdf /\ [][NextPdf]_vars

\* C9: pages are processed one after another; on each page every term is
\* searched, longest first, and its directives queued before the page's
\* directives are applied; apply happens exactly once per page, after the
\* page's last search and before any search on the next page; the document
\* is serialized only after every page has been committed.
C9_PageByPageCommit ==
    (ppc \in {"loop", "saved", "returned"}) =>
        /\ \A p \in 1..Len(doc) :
              /\ Len(applies[p]) <= 1
              /\ Len(applies[p]) = 1 =>
                    /\ searched_at_apply[p][1] = sorted_phrases
                    /\ searches[p] = sorted_phrases
                    /\ applies[p][1] = annots[p]
              /\ \A k \in 1..(Len(searches[p]) - 1) :
                    Len(searches[p][k]) >= Len(searches[p][k + 1])
              /\ searches[p] # <<>> => \A q \in 1..(p - 1) : Len(applies[q]) = 1
              /\ Len(applies[p]) = 1 => \A q \in 1..(p - 1) : Len(applies[q]) = 1
        /\ ppc \in {"saved", "returned"} => \A p \in 1..Len(doc) : Len(applies[p]) = 1

\* Witness of C9: a document of two pages or more was serialized after two
\* terms of different lengths, given shortest first, were searched on every
\* page and something was queued on the last page.
C9_Witness ==
    /\ ppc = "returned"
    /\ Len(doc) >= 2
    /\ Len(pdf_phrases) >= 2
    /\ Len(pdf_phrases[1]) < Len(pdf_phrases[2])
    /\ searches[Len(doc)] = sorted_phrases
    /\ applies[Len(doc)] # <<<<>>>>

\* C10: without a native case-insensitive search, once a page is committed
\* a region has been queued for every occurrence on it of every term as
\* given, in lower case and in upper case.
C10_AllCaseVariantsQueued ==
    (~has_ignorecase /\ ppc \in {"loop", "saved", "returned"}) =>
        \A p \in 1..Len(doc) :
            Len(applies[p]) >= 1 =>
                \A k \in 1..Len(sorted_phrases) :
                    \A v \in {sorted_phrases[k], LowerStr(sorted_phrases[k]),
                              UpperStr(sorted_phrases[k])} :
                        \A i \in Occurrences(doc[p], v, FALSE) :
                            \E n \in 1..Len(applies[p][1]) :
                                applies[p][1][n] = <<i, i + Len(v)>>

====
